---- MODULE Spec2Model ----
(***************************************************************************)
(* Model of the tilegame command line interpreter (gamez.go): the command  *)
(* parser, callParse, the help listing built by init(), and the websocket  *)
(* message loop messageWatcher over a wshandle.ClientRoom.                 *)
(*                                                                         *)
(* A Go string is a sequence of one-character strings.  The character      *)
(* "xFF" stands for a byte that is not valid UTF-8; ranging over a string  *)
(* decodes it to the rune U+FFFD, written "uFFFD".                         *)
(***************************************************************************)
EXTENDS Integers, Sequences, FiniteSets, TLC

VARIABLES
    functionHelpMessage, \* the package variable: the cached help listing
    ranged,     \* init(): the keys of fMap the range loop has visited
    phase,      \* "init", "main", "parse", "serve", "stdin" or "exit": what the process runs
    input,      \* the string handed to parse and callParse
    res,        \* parse(input) once applied, NotRun before
    cp,         \* callParse(input) once applied, NotRun before
    clients,    \* the room: the identifiers of the sessions it holds
    nextId,     \* the room: the identifier the next session gets
    Messages,   \* room.Messages: the frames enqueued and not yet received
    sentBy,     \* the sender of each frame enqueued so far, in enqueue order
    pc,         \* messageWatcher: the statement it is at
    msg,        \* messageWatcher: the frame it received
    reply,      \* messageWatcher: s, the text callParse returned for msg
    client,     \* messageWatcher: the session room.Client returned
    events,     \* what messageWatcher has done so far, in order
    FuncMap,    \* center.FuncMap: the names registered in the function map
    lines,      \* runStdin: the lines of the standard input
    pos,        \* runStdin: the number of lines the scanner has passed
    stdout      \* runStdin: the texts printed, one for each fmt.Println

vars == <<functionHelpMessage, ranged, phase, input, res, cp, clients, nextId,
          Messages, sentBy, pc, msg, reply, client, events, FuncMap, lines, pos,
          stdout>>

stdioVars == <<lines, pos, stdout>>

pureVars == <<input, res, cp>>

roomVars == <<clients, nextId, Messages, sentBy>>

watcherVars == <<pc, msg, reply, client, events>>

\* ------------------------------------------------------------------ bounds

MaxLen == 5     \* longest generated input string
MaxFrames == 2  \* frames the clients send in one run
MaxClients == 2 \* sessions the room accepts in one run
MaxLines == 3   \* lines of the standard input in one run

\* -------------------------------------------------------------- characters

TAB == "\t"
NL == "\n"
CR == "\r"
BadByte == "xFF"
RuneError == "uFFFD"

\* the characters the generated inputs are built from
Alphabet == {"(", ")", ",", " ", "a", TAB, BadByte}

\* for i, r := range s ; string(r): a byte that is not UTF-8 decodes to U+FFFD
Rune(c) == IF c = BadByte THEN RuneError ELSE c

Runes(s) == [i \in 1..Len(s) |-> Rune(s[i])]

\* ------------------------------------------------------------------- parse

NoError == "nil"
ErrNoOpen == "syntax error: '(' not found."
ErrNoClose == "syntax error: ')' not found."
ErrExtra == "syntax error: extra characters found after ')'."

\* strings.Replace(s, " ", "", -1)
\* a removal of the first space only: strings.Replace(s, " ", "", 1)
StripSpacesOnce(s) ==
    IF \E i \in 1..Len(s) : s[i] = " "
    THEN LET i == CHOOSE k \in 1..Len(s) :
                      s[k] = " " /\ \A j \in 1..(k - 1) : s[j] # " "
         IN SubSeq(s, 1, i - 1) \o SubSeq(s, i + 1, Len(s))
    ELSE s

StripSpaces(s) == SelectSeq(s, LAMBDA c : c # " ")

\* the index of the last occurrence of ch in s
IndexOfLast(s, ch) ==
    IF \E i \in 1..Len(s) : s[i] = ch
    THEN CHOOSE i \in 1..Len(s) : s[i] = ch /\ \A j \in (i+1)..Len(s) : s[j] # ch
    ELSE 0

\* index of the first occurrence of ch in s, 0 when there is none
IndexOf(s, ch) ==
    IF \E i \in 1..Len(s) : s[i] = ch
    THEN CHOOSE i \in 1..Len(s) : s[i] = ch /\ \A j \in 1..(i-1) : s[j] # ch
    ELSE 0

\* a parseArgs loop that drops every empty segment, also at a comma
RECURSIVE ParseArgsDropAll(_, _, _, _)
ParseArgsDropAll(s, i, currentArgument, args) ==
    IF i > Len(s) THEN [args |-> args, err |-> ErrNoClose]
    ELSE IF s[i] = ")" THEN
        [args |-> IF Len(currentArgument) > 0
                  THEN Append(args, currentArgument) ELSE args,
         err |-> IF Len(s) - i # 0 THEN ErrExtra ELSE NoError]
    ELSE IF s[i] = "," THEN
        ParseArgsDropAll(s, i + 1, <<>>,
                         IF Len(currentArgument) > 0
                         THEN Append(args, currentArgument) ELSE args)
    ELSE ParseArgsDropAll(s, i + 1, Append(currentArgument, Rune(s[i])), args)

\* a parseArgs loop that puts each argument in front of the list
RECURSIVE ParseArgsPrepend(_, _, _, _)
ParseArgsPrepend(s, i, currentArgument, args) ==
    IF i > Len(s) THEN [args |-> args, err |-> ErrNoClose]
    ELSE IF s[i] = ")" THEN
        [args |-> IF Len(currentArgument) > 0
                  THEN <<currentArgument>> \o args ELSE args,
         err |-> IF Len(s) - i # 0 THEN ErrExtra ELSE NoError]
    ELSE IF s[i] = "," THEN
        ParseArgsPrepend(s, i + 1, <<>>, <<currentArgument>> \o args)
    ELSE ParseArgsPrepend(s, i + 1, Append(currentArgument, Rune(s[i])), args)

\* the parseArgs loop: s is the text after '(', i the position of the scan
RECURSIVE ParseArgs(_, _, _, _)
ParseArgs(s, i, currentArgument, args) ==
    IF i > Len(s) THEN [args |-> args, err |-> ErrNoClose]
    ELSE IF s[i] = ")" THEN
        [args |-> IF Len(currentArgument) > 0
                  THEN Append(args, currentArgument) ELSE args,
         err |-> IF Len(s) - i # 0 THEN ErrExtra ELSE NoError]
    ELSE IF s[i] = "," THEN
        ParseArgs(s, i + 1, <<>>, Append(args, currentArgument))
    ELSE ParseArgs(s, i + 1, Append(currentArgument, Rune(s[i])), args)

\* the body of parse after the spaces are removed
ParseStripped(s) ==
    LET open == IndexOf(s, "(") IN
    IF open = 0
    THEN [name |-> Runes(s), args |-> <<>>, err |-> ErrNoOpen]
    ELSE LET r == ParseArgs(SubSeq(s, open + 1, Len(s)), 1, <<>>, <<>>) IN
         [name |-> Runes(SubSeq(s, 1, open - 1)), args |-> r.args, err |-> r.err]

parse(s) == ParseStripped(StripSpaces(s))

\* ------------------------------------------------------ the command center

GridSize == 30

FuncNames == {"grid", "login", "help", "add", "mult"}

\* fmt.Sprint(reflect.TypeOf(v)) of each value of fMap, cut after "func"
fMap ==
    [k \in FuncNames |->
        CASE k = "grid" -> "() string"
          [] k = "login" -> "(string) int"
          [] k = "help" -> "() string"
          [] k = "add" -> "(float64, float64) float64"
          [] k = "mult" -> "(float64, float64) float64"]

\* the declared parameter kinds of each registered function
ParamKinds ==
    [k \in FuncNames |->
        CASE k = "grid" -> <<>>
          [] k = "login" -> <<"string">>
          [] k = "help" -> <<>>
          [] k = "add" -> <<"float64", "float64">>
          [] k = "mult" -> <<"float64", "float64">>]

HelpHeader == <<"List of Implemented Functions:">>

Help == functionHelpMessage

Grid == [i \in 1..(GridSize * (GridSize + 1)) |->
            IF i % (GridSize + 1) = 0 THEN NL ELSE "."]

Login(name) == 0

Add(a, b) == a + b

Mult(a, b) == a * b

\* the text of a name of fMap as a Go string
Chars(k) ==
    CASE k = "grid" -> <<"g", "r", "i", "d">>
      [] k = "login" -> <<"l", "o", "g", "i", "n">>
      [] k = "help" -> <<"h", "e", "l", "p">>
      [] k = "add" -> <<"a", "d", "d">>
      [] k = "mult" -> <<"m", "u", "l", "t">>

Digits == <<"0", "1", "2", "3", "4", "5", "6", "7", "8", "9">>

IsDigit(c) == \E d \in 1..Len(Digits) : Digits[d] = c

DigitValue(c) == (CHOOSE d \in 1..Len(Digits) : Digits[d] = c) - 1

\* the conversion of an argument to float64, on the decimal naturals
IsNumber(a) == Len(a) > 0 /\ \A i \in 1..Len(a) : IsDigit(a[i])

RECURSIVE NumberValue(_)
NumberValue(a) ==
    IF Len(a) = 0 THEN 0
    ELSE 10 * NumberValue(SubSeq(a, 1, Len(a) - 1)) + DigitValue(a[Len(a)])

Converts(kind, a) == kind = "string" \/ IsNumber(a)

ErrUnknown == "UnknownOperation"
ErrArity == "ArityMismatch"
ErrType == "TypeMismatch"

\* center.CallWithStrings(name, args): [result, err]
CallWithStrings(name, args) ==
    IF ~ \E k \in FuncMap : Chars(k) = name
    THEN [result |-> <<>>, err |-> ErrUnknown]
    ELSE LET k == CHOOSE f \in FuncMap : Chars(f) = name IN
         IF Len(args) # Len(ParamKinds[k])
         THEN [result |-> <<>>, err |-> ErrArity]
         ELSE IF \E i \in 1..Len(args) : ~ Converts(ParamKinds[k][i], args[i])
         THEN [result |-> <<>>, err |-> ErrType]
         ELSE [result |->
                  CASE k = "grid" -> Grid
                    [] k = "login" -> <<ToString(Login(args[1]))>>
                    [] k = "help" -> Help
                    [] k = "add" ->
                        <<ToString(Add(NumberValue(args[1]), NumberValue(args[2])))>>
                    [] k = "mult" ->
                        <<ToString(Mult(NumberValue(args[1]), NumberValue(args[2])))>>,
               err |-> NoError]

\* --------------------------------------------------------------- callParse

HelpTrigger == <<"h", "e", "l", "p">>

\* a callParse without the test for the help trigger
callParseSkipsTrigger(s) ==
    LET p == parse(s) IN
    IF p.err # NoError
    THEN [s |-> <<"Parser: ", p.err>>, ok |-> FALSE, calls |-> <<"parse">>]
    ELSE LET c == CallWithStrings(p.name, p.args) IN
         IF c.err # NoError
         THEN [s |-> <<"Caller: ", c.err>>, ok |-> FALSE,
               calls |-> <<"parse", "CallWithStrings">>]
         ELSE [s |-> c.result, ok |-> TRUE,
               calls |-> <<"parse", "CallWithStrings">>]

\* a callParse that marks every failure as one of the parser
callParseOnePrefix(s) ==
    IF s = HelpTrigger
    THEN [s |-> Help, ok |-> TRUE, calls |-> <<"Help">>]
    ELSE LET p == parse(s) IN
         IF p.err # NoError
         THEN [s |-> <<"Parser: ", p.err>>, ok |-> FALSE, calls |-> <<"parse">>]
         ELSE LET c == CallWithStrings(p.name, p.args) IN
              IF c.err # NoError
              THEN [s |-> <<"Parser: ", c.err>>, ok |-> FALSE,
                    calls |-> <<"parse", "CallWithStrings">>]
              ELSE [s |-> c.result, ok |-> TRUE,
                    calls |-> <<"parse", "CallWithStrings">>]

\* a callParse that looks for the help trigger once the spaces are removed
callParseStripsFirst(s) ==
    IF StripSpaces(s) = HelpTrigger
    THEN [s |-> Help, ok |-> TRUE, calls |-> <<"Help">>]
    ELSE LET p == parse(s) IN
         IF p.err # NoError
         THEN [s |-> <<"Parser: ", p.err>>, ok |-> FALSE, calls |-> <<"parse">>]
         ELSE LET c == CallWithStrings(p.name, p.args) IN
              IF c.err # NoError
              THEN [s |-> <<"Caller: ", c.err>>, ok |-> FALSE,
                    calls |-> <<"parse", "CallWithStrings">>]
              ELSE [s |-> c.result, ok |-> TRUE,
                    calls |-> <<"parse", "CallWithStrings">>]

\* callParse(s): the text and the status it returns, and (calls) the
\* functions it called on the way, in order
callParse(s) ==
    IF s = HelpTrigger
    THEN [s |-> Help, ok |-> TRUE, calls |-> <<"Help">>]
    ELSE LET p == parse(s) IN
         IF p.err # NoError
         THEN [s |-> <<"Parser: ", p.err>>, ok |-> FALSE, calls |-> <<"parse">>]
         ELSE LET c == CallWithStrings(p.name, p.args) IN
              IF c.err # NoError
              THEN [s |-> <<"Caller: ", c.err>>, ok |-> FALSE,
                    calls |-> <<"parse", "CallWithStrings">>]
              ELSE [s |-> c.result, ok |-> TRUE,
                    calls |-> <<"parse", "CallWithStrings">>]

\* ------------------------------------------------------------------ init()

\* strings.Replace(s, "func", k, 1) on the text of a function type
ReplaceFunc(k) == <<k, fMap[k]>>

\* an assignment in the place of the +=
AppendGuideOverwrite(m, k) == HelpHeader \o <<"\n\t">> \o ReplaceFunc(k)

\* functionHelpMessage += fmt.Sprint("\n\t", s)
AppendGuide(m, k) == m \o <<"\n\t">> \o ReplaceFunc(k)

\* the listing init() builds when range visits the keys in this order
RECURSIVE Listing(_)
Listing(order) ==
    IF Len(order) = 0 THEN HelpHeader
    ELSE AppendGuide(Listing(SubSeq(order, 1, Len(order) - 1)), order[Len(order)])

SourceOrder == <<"grid", "login", "help", "add", "mult">>

Reverse(q) == [i \in 1..Len(q) |-> q[Len(q) + 1 - i]]

\* the listings the serving and parsing runs start from
StartListings == {Listing(SourceOrder), Listing(Reverse(SourceOrder))}

\* one iteration of: for k, v := range fMap
InitRange(k) ==
    /\ phase = "init"
    /\ k \in FuncMap \ ranged
    /\ functionHelpMessage' = AppendGuide(functionHelpMessage, k)
    /\ ranged' = ranged \cup {k}
    /\ UNCHANGED <<phase, pureVars, FuncMap, stdioVars, roomVars, watcherVars>>

\* the range loop is over: init() returns
InitReturn ==
    /\ phase = "init"
    /\ ranged = FuncMap
    /\ phase' = "main"
    /\ UNCHANGED <<functionHelpMessage, ranged, pureVars, FuncMap, stdioVars, roomVars, watcherVars>>

\* ------------------------------------------------------------ the room

NotRun == [err |-> "not run"]
NoFrame == [Id |-> 0, Data |-> <<>>, n |-> 0]
NoClient == 0

\* the payloads the clients send
Payloads ==
    { HelpTrigger,
      <<"a", "d", "d", "(", "1", ",", " ", "2", ")">>,
      <<"a", "d", "d", "(", "1">>,
      <<"n", "o", "p", "e", "(", ")">>,
      <<"a", "d", "d", "(", "1", ")">>,
      <<"a", "d", "d", "(", "x", ",", "2", ")">> }

\* room.Handle: a connection is accepted and gets the next identifier
Accept ==
    /\ phase = "serve"
    /\ nextId <= MaxClients
    /\ clients' = clients \cup {nextId}
    /\ nextId' = nextId + 1
    /\ UNCHANGED <<functionHelpMessage, ranged, phase, pureVars, FuncMap, stdioVars, Messages, sentBy,
                   watcherVars>>

\* the read loop of session id got a frame and enqueues it
Enqueue(id, data) ==
    /\ phase = "serve"
    /\ id \in clients
    /\ Len(sentBy) < MaxFrames
    /\ sentBy' = Append(sentBy, id)
    /\ Messages' = Append(Messages, [Id |-> id, Data |-> data, n |-> Len(sentBy) + 1])
    /\ UNCHANGED <<functionHelpMessage, ranged, phase, pureVars, FuncMap, stdioVars, clients, nextId,
                   watcherVars>>

\* the read loop of session id failed to read: the session is removed
Remove(id) ==
    /\ phase = "serve"
    /\ id \in clients
    /\ clients' = clients \ {id}
    /\ UNCHANGED <<functionHelpMessage, ranged, phase, pureVars, FuncMap, stdioVars, nextId, Messages,
                   sentBy, watcherVars>>

\* room.Client(id): the session and whether the room holds it
Client(id) == [client |-> id, ok |-> id \in clients]

\* ------------------------------------------------------- messageWatcher

\* a receive that takes the frame enqueued last
ReceiveLast ==
    /\ phase = "serve"
    /\ pc = "receive"
    /\ Len(Messages) > 0
    /\ msg' = Messages[Len(Messages)]
    /\ Messages' = SubSeq(Messages, 1, Len(Messages) - 1)
    /\ pc' = "callParse"
    /\ events' = Append(events, [e |-> "receive", n |-> Messages[Len(Messages)].n])
    /\ UNCHANGED <<functionHelpMessage, ranged, phase, pureVars, FuncMap, stdioVars, clients, nextId,
                   sentBy, reply, client>>

\* case msg := <-room.Messages
Receive ==
    /\ phase = "serve"
    /\ pc = "receive"
    /\ Len(Messages) > 0
    /\ msg' = Head(Messages)
    /\ Messages' = Tail(Messages)
    /\ pc' = "callParse"
    /\ events' = Append(events, [e |-> "receive", n |-> Head(Messages).n])
    /\ UNCHANGED <<functionHelpMessage, ranged, phase, pureVars, FuncMap, stdioVars, clients, nextId,
                   sentBy, reply, client>>

\* a call step that drops the sender from the room when the command fails
CallClosesOnError ==
    /\ phase = "serve"
    /\ pc = "callParse"
    /\ reply' = callParse(msg.Data).s
    /\ pc' = "lookup"
    /\ events' = Append(events, [e |-> "result", n |-> msg.n,
                                 ok |-> callParse(msg.Data).ok])
    /\ clients' = IF callParse(msg.Data).ok THEN clients ELSE clients \ {msg.Id}
    /\ UNCHANGED <<functionHelpMessage, ranged, phase, pureVars, FuncMap, stdioVars, nextId, Messages,
                   sentBy, msg, client>>

\* a call whose help operation builds its guide into the listing once more
CallRegenerates ==
    /\ phase = "serve"
    /\ pc = "callParse"
    /\ reply' = callParse(msg.Data).s
    /\ pc' = "lookup"
    /\ events' = Append(events, [e |-> "result", n |-> msg.n,
                                 ok |-> callParse(msg.Data).ok])
    /\ functionHelpMessage' = IF msg.Data = HelpTrigger
                              THEN AppendGuide(functionHelpMessage, "help")
                              ELSE functionHelpMessage
    /\ UNCHANGED <<ranged, phase, pureVars, FuncMap, stdioVars, roomVars, msg,
                   client>>

\* s, _ := callParse(string(msg.Data)) ; log.Println(s)
Call ==
    /\ phase = "serve"
    /\ pc = "callParse"
    /\ reply' = callParse(msg.Data).s
    /\ pc' = "lookup"
    /\ events' = Append(events, [e |-> "result", n |-> msg.n,
                                 ok |-> callParse(msg.Data).ok])
    /\ UNCHANGED <<functionHelpMessage, ranged, phase, pureVars, FuncMap, stdioVars, roomVars, msg,
                   client>>

\* a lookup that takes any session of the room, not the sender's
LookupAny ==
    /\ phase = "serve"
    /\ pc = "lookup"
    /\ IF clients # {}
       THEN /\ client' \in clients
            /\ pc' = "write"
            /\ UNCHANGED <<msg, reply, events>>
       ELSE /\ pc' = "receive"
            /\ msg' = NoFrame
            /\ reply' = <<>>
            /\ events' = Append(events, [e |-> "skip", n |-> msg.n])
            /\ UNCHANGED client
    /\ UNCHANGED <<functionHelpMessage, ranged, phase, pureVars, FuncMap, stdioVars, roomVars>>

\* a lookup that ends the loop when the room no longer holds the sender
LookupReturnsOnAbsent ==
    /\ phase = "serve"
    /\ pc = "lookup"
    /\ IF Client(msg.Id).ok
       THEN /\ client' = Client(msg.Id).client
            /\ pc' = "write"
            /\ UNCHANGED <<msg, reply, events>>
       ELSE /\ pc' = "returned"
            /\ UNCHANGED <<msg, reply, events, client>>
    /\ UNCHANGED <<functionHelpMessage, ranged, phase, pureVars, FuncMap, stdioVars,
                   roomVars>>

\* if client, ok := room.Client(msg.Id); ok
Lookup ==
    /\ phase = "serve"
    /\ pc = "lookup"
    /\ IF Client(msg.Id).ok
       THEN /\ client' = Client(msg.Id).client
            /\ pc' = "write"
            /\ UNCHANGED <<msg, reply, events>>
       ELSE /\ pc' = "receive"
            /\ msg' = NoFrame
            /\ reply' = <<>>
            /\ events' = Append(events, [e |-> "skip", n |-> msg.n])
            /\ UNCHANGED client
    /\ UNCHANGED <<functionHelpMessage, ranged, phase, pureVars, FuncMap, stdioVars, roomVars>>

\* fmt.Fprintln(client, s): the error of the write is dropped
Write ==
    /\ phase = "serve"
    /\ pc = "write"
    /\ events' = Append(events, [e |-> "write", n |-> msg.n, from |-> msg.Id,
                                 to |-> client, live |-> client \in clients])
    /\ pc' = "receive"
    /\ msg' = NoFrame
    /\ reply' = <<>>
    /\ client' = NoClient
    /\ UNCHANGED <<functionHelpMessage, ranged, phase, pureVars, FuncMap, stdioVars, roomVars>>

messageWatcher == Receive \/ Call \/ Lookup \/ Write

\* --------------------------------------------------------- specifications

Idle ==
    /\ clients = {}
    /\ nextId = 1
    /\ Messages = <<>>
    /\ sentBy = <<>>
    /\ pc = "receive"
    /\ msg = NoFrame
    /\ reply = <<>>
    /\ client = NoClient
    /\ events = <<>>

\* the function map as the package declares it; nothing read or printed
Loaded ==
    /\ FuncMap = FuncNames
    /\ lines = <<>>
    /\ pos = 0
    /\ stdout = <<>>

\* runServer: the room is new and messageWatcher is started; init() is over
Init ==
    /\ phase = "serve"
    /\ functionHelpMessage \in StartListings
    /\ ranged = FuncNames
    /\ input = <<>>
    /\ res = NotRun
    /\ cp = NotRun
    /\ Idle
    /\ Loaded

Next ==
    \/ Accept
    \/ \E id \in 1..MaxClients, data \in Payloads : Enqueue(id, data)
    \/ \E id \in 1..MaxClients : Remove(id)
    \/ Receive
    \/ Call
    \/ Lookup
    \/ Write

Spec == Init /\ [][Next]_vars

\* messageWatcher moves on from the statement it is at: what every step of
\* messageWatcher does, and what it can do at every statement of its loop
\* but the receive on an empty channel
watcherStep ==
    /\ phase = "serve"
    /\ pc \in {"receive", "callParse", "lookup", "write"}
    /\ pc = "receive" => Len(Messages) > 0
    /\ pc' \in {"receive", "callParse", "lookup", "write"} \ {pc}

\* the payloads of the runs with fair scheduling: the help trigger, a
\* command parse rejects and a command the dispatcher rejects
LivePayloads ==
    { HelpTrigger,
      <<"a", "d", "d", "(", "1">>,
      <<"n", "o", "p", "e", "(", ")">> }

NextLive ==
    \/ Accept
    \/ \E id \in 1..MaxClients, data \in LivePayloads : Enqueue(id, data)
    \/ \E id \in 1..MaxClients : Remove(id)
    \/ Receive
    \/ Call
    \/ Lookup
    \/ Write

\* the goroutine of messageWatcher is scheduled as long as it can take a step
SpecLive == Init /\ [][NextLive]_vars /\ WF_pc(watcherStep)

\* ---- the program from its start: init() builds the help listing

InitStart ==
    /\ phase = "init"
    /\ functionHelpMessage = HelpHeader
    /\ ranged = {}
    /\ input = <<>>
    /\ res = NotRun
    /\ cp = NotRun
    /\ Idle
    /\ Loaded

NextInit ==
    \/ \E k \in FuncNames : InitRange(k)
    \/ InitReturn

SpecInit == InitStart /\ [][NextInit]_vars

\* ---- parse and callParse applied to one input

\* the strings over Alphabet of length at most MaxLen
Generated == UNION {[1..n -> Alphabet] : n \in 0..MaxLen}

SampleLines ==
    { HelpTrigger,
      <<"h", "e", "l", "p", "(", ")">>,
      <<" ", "h", "e", "l", "p">>,
      <<"h", "e", "l", "p", " ">>,
      <<"h", "e", "l", "p", "(", " ", ")">>,
      <<"a", "d", "d", "(", "1", ",", " ", "2", ")">>,
      <<"a", " ", "d", "d", "(", "1", "2", ",", "3", ")">>,
      <<"m", "u", "l", "t", "(", "2", ",", "3", ")">>,
      <<"g", "r", "i", "d", "(", ")">>,
      <<"l", "o", "g", "i", "n", "(", "b", "o", "b", ")">>,
      <<"n", "o", "p", "e", "(", ")">>,
      <<"a", "d", "d", "(", "1", ")">>,
      <<"a", "d", "d", "(", "x", ",", "2", ")">>,
      <<"a", "d", "d", "(", "1", ",", NL, "2", ")">>,
      <<"a", "d", "d", CR, "(", "1", ",", "2", ")">>,
      <<"f", "o", "o", "(", "1", ",", ",", "3", ")">>,
      <<"a", "(", ",", " ", "a", ")">>,
      <<"f", "o", "o", "(", "1", ",", "2", ",", ")">>,
      <<"f", "o", "o", "1", ",", "2", ")">>,
      <<"f", "o", "o", "(", "1", ",", "2">>,
      <<"f", "o", "o", "(", "1", ",", "2", ")", "x">>,
      <<"f", "o", "o", "(", "1", ",", "2", ")", " ">> }

Inputs == Generated \cup SampleLines \cup Payloads

InitParse ==
    /\ phase = "parse"
    /\ functionHelpMessage \in StartListings
    /\ ranged = FuncNames
    /\ input \in Inputs
    /\ res = NotRun
    /\ cp = NotRun
    /\ Idle
    /\ Loaded

\* name, args, err := parse(input) and callParse(input)
ApplyParse ==
    /\ phase = "parse"
    /\ res = NotRun
    /\ res' = parse(input)
    /\ cp' = callParse(input)
    /\ UNCHANGED <<functionHelpMessage, ranged, phase, input, FuncMap, stdioVars,
                   roomVars, watcherVars>>

NextParse == ApplyParse

SpecParse == InitParse /\ [][NextParse]_vars

\* ---- runStdin: the commands come from the standard input

\* stands for a line longer than the scanner's buffer (bufio.MaxScanTokenSize)
LongLine == <<"a line of more than 65536 bytes">>

\* the lines the standard input is made of
StdinLines ==
    { <<>>,
      <<CR>>,
      <<" ">>,
      HelpTrigger,
      <<"a", "d", "d", "(", "1", ",", " ", "2", ")">>,
      <<"a", "d", "d", "(", "1">>,
      <<"n", "o", "p", "e", "(", ")">>,
      LongLine }

\* s.Text(): the line without its end of line, a carriage return included
ScannerText(line) ==
    IF Len(line) > 0 /\ line[Len(line)] = CR
    THEN SubSeq(line, 1, Len(line) - 1)
    ELSE line

InitStdin ==
    /\ phase = "stdin"
    /\ functionHelpMessage \in StartListings
    /\ ranged = FuncNames
    /\ input = <<>>
    /\ res = NotRun
    /\ cp = NotRun
    /\ Idle
    /\ FuncMap = FuncNames
    /\ lines \in UNION {[1..n -> StdinLines] : n \in 0..MaxLines}
    /\ pos = 0
    /\ stdout = <<>>

\* an iteration that leaves the loop when the command failed
ScanLineStopsOnError ==
    /\ phase = "stdin"
    /\ pos < Len(lines)
    /\ lines[pos + 1] # LongLine
    /\ pos' = pos + 1
    /\ LET line == ScannerText(lines[pos + 1]) IN
       IF line = <<>>
       THEN UNCHANGED <<stdout, phase>>
       ELSE /\ stdout' = Append(stdout, callParse(line).s)
            /\ phase' = IF callParse(line).ok THEN phase ELSE "exit"
    /\ UNCHANGED <<functionHelpMessage, ranged, pureVars, FuncMap, lines, roomVars,
                   watcherVars>>

\* one iteration of: for s.Scan() { line := s.Text() ... }
ScanLine ==
    /\ phase = "stdin"
    /\ pos < Len(lines)
    /\ lines[pos + 1] # LongLine
    /\ pos' = pos + 1
    /\ LET line == ScannerText(lines[pos + 1]) IN
       IF line = <<>>
       THEN UNCHANGED stdout
       ELSE stdout' = Append(stdout, callParse(line).s)
    /\ UNCHANGED <<functionHelpMessage, ranged, phase, pureVars, FuncMap, lines,
                   roomVars, watcherVars>>

\* s.Scan() returns false: the input is at its end, or the next line does
\* not fit the scanner's buffer
ScanEnd ==
    /\ phase = "stdin"
    /\ IF pos < Len(lines) THEN lines[pos + 1] = LongLine ELSE TRUE
    /\ phase' = "exit"
    /\ UNCHANGED <<functionHelpMessage, ranged, pureVars, FuncMap, stdioVars,
                   roomVars, watcherVars>>

runStdin == ScanLine \/ ScanEnd

NextStdin ==
    \/ ScanLine
    \/ ScanEnd

SpecStdin == InitStdin /\ [][NextStdin]_vars

\* ---- main(): init() is over and the program runs in one of its two modes

InitRun == Init \/ InitStdin

NextRun ==
    \/ Next
    \/ NextStdin

SpecRun == InitRun /\ [][NextRun]_vars

\* ====================================================================
\* Properties of the message loop (specification Spec)
\* ====================================================================

\* the number of frames messageWatcher has received so far
Received == Cardinality({i \in 1..Len(events) : events[i].e = "receive"})

\* the events of one frame come as receive, result, then write or skip
EventKinds(i) ==
    CASE i % 3 = 1 -> {"receive"}
      [] i % 3 = 2 -> {"result"}
      [] OTHER -> {"write", "skip"}

\* C1: messageWatcher receives the frames in the order they were enqueued
\* and handles them one at a time: the k-th frame it receives is the k-th
\* frame enqueued, and the result of a frame is computed and its write done
\* (or skipped) before the next frame is received, so the events of two
\* frames never interleave; the frames still queued are the next ones, in
\* enqueue order.
C1_SessionOrdering ==
    /\ \A i \in 1..Len(events) :
          /\ events[i].e \in EventKinds(i)
          /\ events[i].n = (i + 2) \div 3
    /\ \A j \in 1..Len(Messages) : Messages[j].n = Received + j
    /\ Received + Len(Messages) = Len(sentBy)
    /\ (pc = "receive") = (Len(events) % 3 = 0)
    /\ pc # "receive" => msg.n = Received

\* two frames of two clients were handled in turn, each with its write
C1_Witness ==
    /\ Len(events) = 6
    /\ events[3].e = "write"
    /\ events[6].e = "write"
    /\ events[3].to # events[6].to

\* C2: a write is never attempted on a session the room has removed,
\* whenever the removal happens between the enqueue and the write
C2_NoWriteOnRemoved ==
    \A i \in 1..Len(events) : events[i].e = "write" => events[i].live

\* C3: every frame received causes at most one write, the write goes to
\* the session whose identifier is the frame's sender, and no frame is
\* received twice
C3_ResultRouting ==
    /\ \A i \in 1..Len(events) :
          events[i].e = "write" =>
              /\ events[i].to = sentBy[events[i].n]
              /\ events[i].from = sentBy[events[i].n]
    /\ \A i, j \in 1..Len(events) :
          (events[i].e = events[j].e /\ events[i].e \in {"write", "receive"}
              /\ events[i].n = events[j].n) => i = j
    /\ pc = "write" => client = msg.Id /\ msg.Id = sentBy[msg.n]

\* a result was written while the room held another session as well
C3_Witness ==
    /\ Cardinality(clients) = 2
    /\ \E i \in 1..Len(events) : events[i].e = "write" /\ events[i].live

\* the text of a failed command starts with one of the two error prefixes
IsErrorText(text) == Len(text) = 2 /\ text[1] \in {"Parser: ", "Caller: "}

\* the statements of the loop of messageWatcher
WatcherPcs == {"receive", "callParse", "lookup", "write"}

\* C4: whatever the payload of a frame (malformed, unknown operation,
\* wrong arity or argument types), a step of messageWatcher leaves the
\* room's sessions as they are and leaves the loop at one of its
\* statements, ready for the next step; a failing frame produces a text
\* that starts with an error prefix
C4_FailureIsolation ==
    [][ (pc' # pc \/ events' # events) =>
            /\ clients' = clients
            /\ nextId' = nextId
            /\ pc' \in WatcherPcs
            /\ (pc' = "receive") = (msg' = NoFrame)
            /\ pc' = "lookup" =>
                  (callParse(msg.Data).ok \/ IsErrorText(reply')) ]_vars

\* a failing frame was handled and answered with its sender still in the
\* room, and the loop went on to handle the next frame, failing too
C4_Witness ==
    /\ Len(events) >= 4
    /\ events[2].ok = FALSE
    /\ events[3].e = "write"
    /\ events[3].live
    /\ events[3].to \in clients
    /\ pc = "lookup"
    /\ IsErrorText(reply)

\* messageWatcher is through with the n-th frame enqueued
Handled(n) ==
    \E i \in 1..Len(events) : events[i].n = n /\ events[i].e \in {"write", "skip"}

\* C13: every frame enqueued on room.Messages is in the end received and
\* handled by messageWatcher, whatever sessions are accepted or removed and
\* whatever the payloads are (specification SpecLive: messageWatcher is
\* scheduled fairly)
C13_EveryFrameHandled ==
    \A n \in 1..MaxFrames : (Len(sentBy) >= n) ~> Handled(n)

\* a frame with a failing payload was handled after a frame whose sender
\* had left the room
C13_Witness ==
    /\ Len(sentBy) = 2
    /\ Handled(2)
    /\ \E i \in 1..Len(events) : events[i].e = "skip" /\ events[i].n = 1
    /\ \E i \in 1..Len(events) :
          events[i].e = "result" /\ events[i].n = 2 /\ ~ events[i].ok

\* ====================================================================
\* Properties of parse and callParse (specification SpecParse)
\* ====================================================================

Applied == res # NotRun

Count(t, ch) == Cardinality({i \in 1..Len(t) : t[i] = ch})

\* the position of the first ch of t at or after position from, 0 if none
FirstFrom(t, ch, from) ==
    LET at == {i \in from..Len(t) : t[i] = ch} IN
    IF at = {} THEN 0 ELSE CHOOSE i \in at : \A j \in at : i <= j

\* the segments of t between the occurrences of sep (one more than those)
RECURSIVE Split(_, _)
Split(t, sep) ==
    LET at == FirstFrom(t, sep, 1) IN
    IF at = 0 THEN <<t>>
    ELSE <<SubSeq(t, 1, at - 1)>> \o Split(SubSeq(t, at + 1, Len(t)), sep)

Front(q) == SubSeq(q, 1, Len(q) - 1)

\* t is name(a1,...,an): one '(', one ')' which ends it
IsCallForm(t) ==
    /\ Len(t) >= 2
    /\ t[Len(t)] = ")"
    /\ Count(t, "(") = 1
    /\ Count(t, ")") = 1

FormName(t) == SubSeq(t, 1, FirstFrom(t, "(", 1) - 1)

FormInside(t) == SubSeq(t, FirstFrom(t, "(", 1) + 1, Len(t) - 1)

\* a1,...,an of name(a1,...,an); name() has none
FormArgs(t) == IF FormInside(t) = <<>> THEN <<>> ELSE Split(FormInside(t), ",")

\* C5 as claimed: for every input name(a1,...,an) whose name has no
\* parenthesis and whose arguments have no comma and no parenthesis, parse
\* returns no error, the name, and the list a1,...,an
C5_ParseWellFormed_AsClaimed ==
    (Applied /\ IsCallForm(input)) =>
        /\ res.err = NoError
        /\ res.name = FormName(input)
        /\ res.args = FormArgs(input)

\* C5 as amended: the same, for the inputs that hold no space and no byte
\* that is not UTF-8 and whose last argument, if there is one, is not empty
C5_ParseWellFormed ==
    (/\ Applied
     /\ IsCallForm(input)
     /\ Count(input, " ") = 0
     /\ Count(input, BadByte) = 0
     /\ input[Len(input) - 1] # ",") =>
        /\ res.err = NoError
        /\ res.name = FormName(input)
        /\ Len(res.args) = Len(FormArgs(input))
        /\ \A i \in 1..Len(res.args) : res.args[i] = FormArgs(input)[i]

\* parse was applied to a call of two arguments, the first one empty
C5_Witness ==
    /\ Applied
    /\ input = <<"(", ",", "a", ")">>
    /\ res.args = << <<>>, <<"a">> >>
    /\ res.err = NoError

DeleteWhitespace(t) == SelectSeq(t, LAMBDA c : c \notin {" ", TAB, NL, CR})

\* C6: parse returns the same name, arguments and error for an input and
\* for every input that differs from it in whitespace only (space, tab,
\* newline, carriage return), so the same as for the input with all of its
\* whitespace deleted
C6_WhitespaceInsensitive ==
    Applied => res = parse(DeleteWhitespace(input))

\* the text of the stripped input between its first '(' and the first ')'
\* after it
Inner(t) ==
    LET open == FirstFrom(t, "(", 1) IN
    SubSeq(t, open + 1, FirstFrom(t, ")", open + 1) - 1)

HasClose(t) ==
    /\ FirstFrom(t, "(", 1) # 0
    /\ FirstFrom(t, ")", FirstFrom(t, "(", 1) + 1) # 0

\* C7: when the arguments are closed by ')', the argument list is the list
\* of the segments between the commas, the empty ones too, without the last
\* segment when that is empty: as many arguments as commas before the ')',
\* plus one if the last segment is not empty; so foo(1,,3) gives 1, empty,
\* 3 and foo(1,2,) gives 1, 2
C7_EmptyArgumentAsymmetry ==
    LET t == StripSpaces(input)
        segs == Split(Inner(t), ",")
        last == segs[Len(segs)]
        want == IF last = <<>> THEN Front(segs) ELSE segs
    IN  /\ (Applied /\ HasClose(t)) =>
              /\ Len(res.args) = Count(Inner(t), ",") + (IF last = <<>> THEN 0 ELSE 1)
              /\ Len(res.args) = Len(want)
              /\ \A i \in 1..Len(want) : res.args[i] = Runes(want[i])
        /\ (Applied /\ input = <<"f", "o", "o", "(", "1", ",", ",", "3", ")">>) =>
              res.args = << <<"1">>, <<>>, <<"3">> >>
        /\ (Applied /\ input = <<"f", "o", "o", "(", "1", ",", "2", ",", ")">>) =>
              res.args = << <<"1">>, <<"2">> >>

\* parse was applied to an input with an empty segment at a comma and an
\* empty segment at the ')'
C7_Witness ==
    /\ Applied
    /\ input = <<"(", ",", "a", ",", ")">>
    /\ Len(res.args) = 2

\* C8: parse ends in exactly one of four ways, decided by the input
\* without its spaces: the '(' error iff it holds no '('; the ')' error iff
\* it holds a '(' and no ')' after the first '('; the extra characters
\* error iff a character follows the first ')' after the first '('; no
\* error in every other case
C8_OutcomeClassification ==
    LET t == StripSpaces(input)
        open == FirstFrom(t, "(", 1)
        close == IF open = 0 THEN 0 ELSE FirstFrom(t, ")", open + 1)
    IN  Applied =>
          /\ res.err \in {ErrNoOpen, ErrNoClose, ErrExtra, NoError}
          /\ (res.err = ErrNoOpen) = (Count(t, "(") = 0)
          /\ (res.err = ErrNoClose) = (open # 0 /\ close = 0)
          /\ (res.err = ErrExtra) = (close # 0 /\ close < Len(t))
          /\ (res.err = NoError) = (close # 0 /\ close = Len(t))

\* parse found characters after the ')' of an input with two '('
C8_Witness ==
    /\ Applied
    /\ res.err = ErrExtra
    /\ Count(input, "(") = 2
    /\ Count(input, " ") > 0

\* C9: for the input help, callParse returns the cached help listing with
\* status true, and calls neither parse nor center.CallWithStrings
C9_HelpTrigger ==
    (cp # NotRun /\ input = HelpTrigger) =>
        /\ cp.s = functionHelpMessage
        /\ cp.ok
        /\ \A i \in 1..Len(cp.calls) : cp.calls[i] \notin {"parse", "CallWithStrings"}

\* callParse was applied to the input help
C9_Witness ==
    /\ cp # NotRun
    /\ input = HelpTrigger
    /\ cp.ok
    /\ Len(cp.s) = 1 + 3 * Cardinality(FuncNames)

\* the errors of parse and of the dispatcher
ParseErrors == {ErrNoOpen, ErrNoClose, ErrExtra}

DispatchErrors == {ErrUnknown, ErrArity, ErrType}

\* C12: for every input but the help trigger, the status is false exactly
\* when parse or the dispatcher failed; when parse fails the text is
\* "Parser: " and the error and the dispatcher is not called; when the
\* dispatcher fails the text is "Caller: " and its error; otherwise the
\* text is the result of the handler and the status is true
C12_ErrorKinds ==
    (cp # NotRun /\ input # HelpTrigger) =>
        LET d == CallWithStrings(res.name, res.args) IN
        /\ cp.ok = (res.err = NoError /\ d.err = NoError)
        /\ res.err # NoError =>
              /\ cp.s = <<"Parser: ", res.err>>
              /\ res.err \in ParseErrors
              /\ \A i \in 1..Len(cp.calls) : cp.calls[i] # "CallWithStrings"
        /\ (res.err = NoError /\ d.err # NoError) =>
              /\ cp.s = <<"Caller: ", d.err>>
              /\ d.err \in DispatchErrors
        /\ (res.err = NoError /\ d.err = NoError) => cp.s = d.result
        /\ cp.ok => cp.s \notin {<<"Parser: ", e>> : e \in ParseErrors}
                             \cup {<<"Caller: ", e>> : e \in DispatchErrors}

\* callParse was applied to a call that parses and that the dispatcher
\* rejects for the type of an argument
C12_Witness ==
    /\ cp # NotRun
    /\ input = <<"a", "d", "d", "(", "x", ",", "2", ")">>
    /\ cp = [s |-> <<"Caller: ", ErrType>>, ok |-> FALSE,
             calls |-> <<"parse", "CallWithStrings">>]

HelpCall == <<"h", "e", "l", "p", "(", ")">>

\* C15: the input help() goes through parse (name help, no arguments) and
\* the dispatcher, and returns the text the trigger help returns; every
\* input other than the trigger itself, help with a space before or after
\* it included, is handed to parse, and help with spaces around it ends as
\* the parser's error for a missing '('
C15_HelpRoutesAgree ==
    (Applied /\ cp # NotRun) =>
        /\ input = HelpCall =>
              /\ res = [name |-> HelpTrigger, args |-> <<>>, err |-> NoError]
              /\ cp.calls = <<"parse", "CallWithStrings">>
              /\ cp.ok
              /\ cp.s = callParse(HelpTrigger).s
              /\ cp.s = functionHelpMessage
        /\ input # HelpTrigger => cp.calls[1] = "parse"
        /\ (input # HelpTrigger /\ StripSpaces(input) = HelpTrigger) =>
              cp = [s |-> <<"Parser: ", ErrNoOpen>>, ok |-> FALSE,
                    calls |-> <<"parse">>]

\* callParse was applied to help() and answered with the listing
C15_Witness ==
    /\ cp # NotRun
    /\ input = HelpCall
    /\ cp.ok
    /\ cp.s = functionHelpMessage
    /\ cp.calls = <<"parse", "CallWithStrings">>

\* strings.Join(a, ",")
RECURSIVE Join(_)
Join(a) ==
    IF a = <<>> THEN <<>>
    ELSE IF Len(a) = 1 THEN a[1]
    ELSE a[1] \o <<",">> \o Join(Tail(a))

\* name + "(" + the arguments joined by "," + ")"
Rebuilt == res.name \o <<"(">> \o Join(res.args) \o <<")">>

\* the text without its spaces
RECURSIVE SpacesRemoved(_)
SpacesRemoved(t) ==
    IF t = <<>> THEN <<>>
    ELSE IF Head(t) = " " THEN SpacesRemoved(Tail(t))
    ELSE <<Head(t)>> \o SpacesRemoved(Tail(t))

\* the character just before the last ')' of the text ("" when there is none)
BeforeClose(t) ==
    LET closes == {i \in 2..Len(t) : t[i] = ")"} IN
    IF closes = {} THEN ""
    ELSE t[(CHOOSE i \in closes : \A j \in closes : j <= i) - 1]

\* the name holds no '(' and no argument holds ',' or ')'
CleanParts ==
    /\ \A i \in 1..Len(res.name) : res.name[i] # "("
    /\ \A k \in 1..Len(res.args) :
          \A i \in 1..Len(res.args[k]) : res.args[k][i] \notin {",", ")"}

\* C16 as claimed: when parse succeeds on an input whose character just
\* before the closing ')' is not a comma, name + "(" + the arguments joined
\* by "," + ")" is the input with its spaces removed; and on every success
\* the name holds no '(' and no argument holds ',' or ')'
C16_ParseRoundTrip_AsClaimed ==
    (Applied /\ res.err = NoError) =>
        /\ BeforeClose(input) # "," => Rebuilt = SpacesRemoved(input)
        /\ CleanParts

\* C16 as amended: when parse succeeds on an input in which, once its spaces
\* are removed, the character just before the closing ')' is not a comma,
\* name + "(" + the arguments joined by "," + ")" is the input with its
\* spaces removed and every byte that is not valid UTF-8 replaced by U+FFFD;
\* and on every success the name holds no '(' and no argument holds ',' or
\* ')'
C16_ParseRoundTrip ==
    (Applied /\ res.err = NoError) =>
        /\ BeforeClose(SpacesRemoved(input)) # "," =>
              Rebuilt = Runes(SpacesRemoved(input))
        /\ CleanParts

\* parse succeeded on an input with spaces and an empty argument in the
\* middle, and the parts give the input back without its spaces
C16_Witness ==
    /\ Applied
    /\ input = <<"a", "(", ",", " ", "a", ")">>
    /\ res = [name |-> <<"a">>, args |-> << <<>>, <<"a">> >>, err |-> NoError]
    /\ Rebuilt = <<"a", "(", ",", "a", ")">>

\* ====================================================================
\* Properties of init() (specification SpecInit)
\* ====================================================================

\* the entries of a listing: the name and the type after each "\n\t"
Entries(m) ==
    [i \in 1..((Len(m) - 1) \div 3) |-> <<m[3 * i], m[3 * i + 1]>>]

EntrySet(m) == {Entries(m)[i] : i \in 1..Len(Entries(m))}

\* the number of entries of the listing m that are named k
NameCount(m, k) ==
    Cardinality({i \in 1..Len(Entries(m)) : Entries(m)[i][1] = k})

\* C10: the listing holds one entry for each name of fMap the range loop
\* has visited and none for the others; when init() returns it holds each
\* registered name exactly once, and the set of its entries is the one of
\* any other iteration order
C10_HelpListsEveryName ==
    /\ \A k \in FuncNames :
          NameCount(functionHelpMessage, k) = IF k \in ranged THEN 1 ELSE 0
    /\ Len(Entries(functionHelpMessage)) = Cardinality(ranged)
    /\ phase = "main" =>
          /\ \A k \in FuncNames : NameCount(functionHelpMessage, k) = 1
          /\ Len(Entries(functionHelpMessage)) = Cardinality(FuncNames)
          /\ EntrySet(functionHelpMessage) = {<<k, fMap[k]>> : k \in FuncNames}

\* init() returned after ranging over fMap in another order than the
\* source lists it
C10_Witness ==
    /\ phase = "main"
    /\ functionHelpMessage[3 * Cardinality(FuncNames)] = "grid"
    /\ functionHelpMessage # Listing(SourceOrder)

\* ====================================================================
\* Properties of runStdin (specification SpecStdin)
\* ====================================================================

\* the texts runStdin is to print for the lines q: the result of callParse
\* for each line that is not blank, in the order of the lines
RECURSIVE Printed(_)
Printed(q) ==
    IF Len(q) = 0 THEN <<>>
    ELSE LET line == ScannerText(q[Len(q)]) IN
         IF line = <<>> THEN Printed(Front(q))
         ELSE Append(Printed(Front(q)), callParse(line).s)

\* the number of lines a text takes on the output once printed
OutputLines(text) ==
    1 + Cardinality({i \in 1..Len(text) : text[i] \in {NL, "\n\t"}})

NoLongLine == \A i \in 1..Len(lines) : lines[i] # LongLine

C14_RegistryImmutable ==
    [][/\ FuncMap' = FuncMap
       /\ functionHelpMessage' = functionHelpMessage]_vars

\* the network loop has answered the help trigger, a command that succeeded
\* through the dispatcher and a command that failed
C14_Witness ==
    /\ phase = "serve"
    /\ \E i, j \in 1..Len(events) :
          /\ i < j
          /\ events[i].e = "result" /\ events[i].ok
          /\ events[j].e = "result" /\ ~events[j].ok
    /\ FuncMap = FuncNames
    /\ functionHelpMessage \in StartListings

====
